---- MODULE Spec2Model ----
(***************************************************************************)
(* Call lifecycle coordination of the mobile client: the consultation call *)
(* page (join with retry, hangup, end-of-call navigation), the home        *)
(* screen's initiateCall, the polled CallNotificationListener and the      *)
(* native RingingCalls listener, against an abstract media service and     *)
(* notification backend.  Every await of the source is a suspension point: *)
(* an async function is a position (pc) and one action per settlement.     *)
(***************************************************************************)
EXTENDS Integers, Sequences, FiniteSets, TLC

\* ------------------------------------------------------------------ bounds
MaxCalls == 2      \* call ids the media service knows
MaxNotifs == 2     \* notification records the backend can issue
MaxInitiates == 1  \* initiateCall invocations of the home screen
NavCap == 3        \* the handleCallEnd counter saturates here
FailCap == 2
MaxTime == 3
MaxIgnored == 1       \* the failed-get() history counter saturates here
SurfCap == 3       \* the per-call surfaced-invitation counter saturates here
MaxRoutes == 2     \* consultation routes the accept handlers may push

\* ------------------------------------------------------- program constants
maxAttempts == 20  \* retry loop bound of initializeCall

CallIds == 1..MaxCalls
NotifIds == 1..MaxNotifs
Modes == {"audio", "video"}
FirstCall == CHOOSE c \in CallIds : \A d \in CallIds : c <= d

VARIABLES
    badge,      \* CallDurationBadge, the session it reads, and the clock
    app,        \* AppState.currentState and the call page's app-state handler
    client,     \* useStreamVideoClient() returned a client
    created,    \* call ids created on the media service (by either party)
    exists,     \* call ids whose call object is visible to get()/join()
    cstate,     \* call id -> CallingState of the call object on this device
    camera,     \* call id -> "unset" | "on" | "off"
    mic,        \* call id -> "unset" | "on" | "off"
    callMode,   \* call id -> the mode its caller intends (custom data / notification)
    navStack,   \* consultation routes [id, mode] pushed above the home screen
    navEnded,   \* number of handleCallEnd runs (saturating)
    pages,      \* call id -> state of the ConsultationPage instance of that route
    home,       \* HomeScreen state and the position of its initiateCall
    lis,        \* CallNotificationListener state
    ring,       \* RingingCalls state
    pending,    \* backend: pending notification ids, newest first
    notifCall,  \* backend: notification id -> call id (0: not issued yet)
    calls,      \* client.state.calls: ringing call ids in arrival order
    vibrating,  \* the device-wide Vibration pattern is running
    surfaced    \* call id -> number of times an invitation for it was surfaced

svcVars == <<client, created, exists, cstate, camera, mic, callMode>>
navVars == <<navStack, navEnded>>
inviteVars == <<lis, ring, pending, notifCall, calls, vibrating, surfaced>>
vars == <<app, badge, client, created, exists, cstate, camera, mic, callMode, navStack, navEnded,
          pages, home, lis, ring, pending, notifCall, calls, vibrating, surfaced>>

Cap(n, cap) == IF n > cap THEN cap ELSE n
Pop(s) == IF s = <<>> THEN s ELSE SubSeq(s, 1, Len(s) - 1)
\* the navigation stack: routes are [id |-> call id, mode |-> initialCallMode]
WithoutRoute(s, c) == SelectSeq(s, LAMBDA r : r.id # c)
OnStack(c) == \E i \in DOMAIN navStack : navStack[i].id = c
TopId == IF navStack = <<>> THEN 0 ELSE navStack[Len(navStack)].id
RouteMode(c) == (CHOOSE r \in {navStack[i] : i \in DOMAIN navStack} : r.id = c).mode

\* ------------------------------------------------------------ media policy
\* camera.disable()/enable() and microphone.enable() chosen by the call mode
CameraAlwaysOn(mode) == "on"
CameraFor(mode) == IF mode = "audio" THEN "off" ELSE "on"
MicFor(mode) == "on"

\* --------------------------------------------------------- ConsultationPage
NoPage ==
    [alive |-> FALSE, mode |-> "video", mounted |-> FALSE, subscribed |-> FALSE,
     hasJoined |-> FALSE, callObject |-> FALSE, isLoading |-> TRUE,
     error |-> "none", isCallReady |-> FALSE, pc |-> "unmounted",
     attempts |-> 0, callFound |-> FALSE, hpc |-> "idle",
     getFails |-> 0, leaveRejected |-> FALSE,
     tornAt |-> "none"]

\* what the page renders: the coordinator state as the user sees it
PageState(pg) ==
    IF ~pg.alive THEN "Idle"
    ELSE IF pg.isLoading THEN "Joining"
    ELSE IF pg.error # "none" THEN "Failed"
    ELSE IF ~pg.callObject THEN "NotFound"
    ELSE "Active"

\* the callingState$ subscriber of initializeCall: the page after newState
SubCallback(pg, newState) ==
    IF ~pg.subscribed \/ ~pg.mounted THEN pg
    ELSE IF newState = "joined" /\ ~pg.hasJoined
         THEN [pg EXCEPT !.hasJoined = TRUE, !.isCallReady = TRUE, !.isLoading = FALSE]
         ELSE pg

\* whether that subscriber calls handleCallEnd on newState
SubEndsOnLocalHangupOnly(pg, newState) ==
    pg.subscribed /\ pg.mounted /\ newState = "left" /\ pg.hpc # "idle"
SubEnds(pg, newState) ==
    pg.subscribed /\ pg.mounted /\ newState = "left"

\* handleCallEnd: router.back() when it can go back, else replace with the tabs
HandleCallEnd(n) ==
    /\ navStack' = (IF n > 0 THEN Pop(navStack) ELSE navStack)
    /\ navEnded' = Cap(navEnded + n, NavCap)

\* the outer catch of initializeCall
InitCatchLogsOnly(pg, msg) ==
    [pg EXCEPT !.pc = "failed", !.attempts = 0, !.callFound = FALSE]
InitCatch(pg, msg) ==
    IF pg.mounted
    THEN [pg EXCEPT !.pc = "failed", !.error = msg, !.isLoading = FALSE,
                    !.attempts = 0, !.callFound = FALSE]
    ELSE [pg EXCEPT !.pc = "failed", !.attempts = 0, !.callFound = FALSE]

\* initializeCall returns normally ("Call join initiated"); its locals are gone
InitReturn(pg) == [pg EXCEPT !.pc = "done", !.attempts = 0, !.callFound = FALSE]

NotFoundMsg == "Call was not found after multiple attempts. Please try again."

\* the while condition of the retry loop, and what follows the loop
LoopCheckUnbounded(pg) ==
    IF pg.mounted /\ ~pg.callFound
    THEN [pg EXCEPT !.pc = "get"]
    ELSE IF ~pg.callFound
         THEN InitCatch(pg, NotFoundMsg)
         ELSE InitReturn(pg)
LoopCheck(pg) ==
    IF pg.attempts < maxAttempts /\ pg.mounted /\ ~pg.callFound
    THEN [pg EXCEPT !.pc = "get"]
    ELSE IF ~pg.callFound
         THEN InitCatch(pg, NotFoundMsg)
         ELSE InitReturn(pg)

\* the effect's first run: initializeCall up to its first await
InitializeCallStart(mode, hasClient, state) ==
    LET fresh == [NoPage EXCEPT !.alive = TRUE, !.mode = mode, !.mounted = TRUE]
    IN  IF ~hasClient
        THEN [fresh EXCEPT !.pc = "failed", !.error = "Unable to initialize call",
                           !.isLoading = FALSE]
        ELSE SubCallback([fresh EXCEPT !.subscribed = TRUE, !.pc = "cam"], state)

\* after "Call doesn't exist yet, retrying...": attempts = 0, callFound = false
EnterLoop(pg) == LoopCheck([pg EXCEPT !.attempts = 0, !.callFound = FALSE])

\* await call.camera.disable() / enable() of initializeCall settles
PageCamSettle(c) ==
    /\ pages[c].pc = "cam"
    /\ \/ /\ camera' = [camera EXCEPT ![c] = CameraFor(pages[c].mode)]
          /\ pages' = [pages EXCEPT ![c].pc = "mic"]
       \/ /\ pages' = [pages EXCEPT ![c] = InitCatch(@, "Failed to join call")]
          /\ UNCHANGED camera
    /\ UNCHANGED <<app, badge, client, created, exists, cstate, mic, callMode, navVars, home, inviteVars>>

\* await call.microphone.enable() settles; then setCallObject and the first get()
PageMicSettle(c) ==
    /\ pages[c].pc = "mic"
    /\ \/ /\ mic' = [mic EXCEPT ![c] = MicFor(pages[c].mode)]
          /\ pages' = [pages EXCEPT ![c].callObject = TRUE, ![c].pc = "get0"]
       \/ /\ pages' = [pages EXCEPT ![c] = InitCatch(@, "Failed to join call")]
          /\ UNCHANGED mic
    /\ UNCHANGED <<app, badge, client, created, exists, cstate, camera, callMode, navVars, home, inviteVars>>

\* the first await call.get() settles
PageGet0Settle(c) ==
    /\ pages[c].pc = "get0"
    /\ \/ /\ c \in exists
          /\ pages' = [pages EXCEPT ![c].pc = "join0"]
       \/ pages' = [pages EXCEPT ![c] =
                       EnterLoop([@ EXCEPT !.getFails = Cap(@ + 1, FailCap)])]
    /\ UNCHANGED <<app, badge, svcVars, navVars, home, inviteVars>>

\* the first await call.join() settles
PageJoin0Settle(c) ==
    /\ pages[c].pc = "join0"
    /\ \/ /\ c \in exists
          /\ cstate' = [cstate EXCEPT ![c] = "joined"]
          /\ pages' = [pages EXCEPT ![c] = SubCallback(InitReturn(@), "joined")]
       \/ /\ pages' = [pages EXCEPT ![c] = EnterLoop(@)]
          /\ UNCHANGED cstate
    /\ UNCHANGED <<app, badge, client, created, exists, camera, mic, callMode, navVars, home, inviteVars>>

\* await call.get() inside the retry loop settles
PageGetSettle(c) ==
    /\ pages[c].pc = "get"
    /\ \/ /\ c \in exists
          /\ pages' = [pages EXCEPT ![c].pc = "join"]
       \/ pages' = [pages EXCEPT ![c].pc = "sleep",
                                 ![c].attempts = @ + 1,
                                 ![c].getFails = Cap(@ + 1, FailCap)]
    /\ UNCHANGED <<app, badge, svcVars, navVars, home, inviteVars>>

\* await call.join() inside the retry loop settles
PageJoinSettle(c) ==
    /\ pages[c].pc = "join"
    /\ \/ /\ c \in exists
          /\ cstate' = [cstate EXCEPT ![c] = "joined"]
          /\ pages' = [pages EXCEPT ![c] =
                          SubCallback(LoopCheck([@ EXCEPT !.callFound = TRUE]), "joined")]
       \/ /\ pages' = [pages EXCEPT ![c].pc = "sleep", ![c].attempts = @ + 1]
          /\ UNCHANGED cstate
    /\ UNCHANGED <<app, badge, client, created, exists, camera, mic, callMode, navVars, home, inviteVars>>

\* the 100 ms timer of the retry loop fires; the while condition is evaluated
PageSleepDone(c) ==
    /\ pages[c].pc = "sleep"
    /\ pages' = [pages EXCEPT ![c] = LoopCheck(@)]
    /\ UNCHANGED <<app, badge, svcVars, navVars, home, inviteVars>>

\* handleHangup up to its await: the hangup control of the rendered call UI
HangupStart(pg, state) ==
    IF ~pg.callObject THEN [pg EXCEPT !.hpc = "done"]
    ELSE IF state # "left" THEN [pg EXCEPT !.hpc = "leaving"]
    ELSE [pg EXCEPT !.hpc = "done"]

PageHangupPress(c) ==
    /\ PageState(pages[c]) = "Active"
    /\ TopId = c
    /\ pages[c].hpc = "idle"
    /\ pages' = [pages EXCEPT ![c] = HangupStart(@, cstate[c])]
    /\ HandleCallEnd(IF pages'[c].hpc = "done" THEN 1 ELSE 0)
    /\ UNCHANGED <<app, badge, svcVars, home, inviteVars>>

\* await callObject.leave() settles: resolved (the state stream emits LEFT) or rejected
PageLeaveSettle(c) ==
    /\ pages[c].hpc = "leaving"
    /\ \/ /\ cstate' = [cstate EXCEPT ![c] = "left"]
          /\ HandleCallEnd(IF SubEnds(pages[c], "left") THEN 1 ELSE 0)
          /\ pages' = [pages EXCEPT ![c].hpc = "finally"]
       \/ /\ pages' = [pages EXCEPT ![c].hpc = "finally", ![c].leaveRejected = TRUE]
          /\ UNCHANGED <<app, badge, cstate, navVars>>
    /\ UNCHANGED <<app, badge, client, created, exists, camera, mic, callMode, home, inviteVars>>

\* the finally block of handleHangup: how often it calls handleCallEnd
HangupFinallyOnSuccessOnly(pg) == IF pg.leaveRejected THEN 0 ELSE 1
HangupFinally(pg) == 1

PageHangupFinally(c) ==
    /\ pages[c].hpc = "finally"
    /\ pages' = [pages EXCEPT ![c].hpc = "done"]
    /\ HandleCallEnd(HangupFinally(pages[c]))
    /\ UNCHANGED <<app, badge, svcVars, home, inviteVars>>

\* the Go Back button of the error and call-not-found screens
PageGoBack(c) ==
    /\ PageState(pages[c]) \in {"Failed", "NotFound"}
    /\ TopId = c
    /\ HandleCallEnd(1)
    /\ UNCHANGED <<app, badge, svcVars, pages, home, inviteVars>>

\* cleanup of the initialize effect
EffectCleanup(pg) == [pg EXCEPT !.mounted = FALSE, !.subscribed = FALSE]

\* the page is unmounted (its route was popped, or the user or a logout leaves it)
PageUnmount(c) ==
    /\ pages[c].alive
    /\ pages' = [pages EXCEPT ![c] =
                    [EffectCleanup(@) EXCEPT !.alive = FALSE,
                                             !.tornAt = PageState(pages[c])]]
    /\ navStack' = WithoutRoute(navStack, c)
    /\ UNCHANGED <<app, badge, svcVars, navEnded, home, inviteVars>>

\* a dependency of the initialize effect changes: cleanup, then a new run of
\* initializeCall, which finds mountedRef.current false and returns at once
PageEffectRerun(c) ==
    /\ pages[c].alive
    /\ pages[c].mounted
    /\ pages' = [pages EXCEPT ![c] =
                    [EffectCleanup(@) EXCEPT !.error = "Unable to initialize call",
                                             !.isLoading = FALSE]]
    /\ UNCHANGED <<app, badge, svcVars, navVars, home, inviteVars>>

\* the media service makes the created call object visible (propagation delay)
SvcCallVisible(c) ==
    /\ c \in created
    /\ c \notin exists
    /\ exists' = exists \cup {c}
    /\ UNCHANGED <<app, badge, client, created, cstate, camera, mic, callMode, navVars, pages,
                   home, inviteVars>>

\* the media service ends the joined call (the remote party left): the stream emits LEFT
SvcRemoteLeft(c) ==
    /\ cstate[c] = "joined"
    /\ cstate' = [cstate EXCEPT ![c] = "left"]
    /\ HandleCallEnd(IF SubEnds(pages[c], "left") THEN 1 ELSE 0)
    /\ UNCHANGED <<app, badge, client, created, exists, camera, mic, callMode, pages, home, inviteVars>>

PageNext(c) ==
    \/ PageCamSettle(c) \/ PageMicSettle(c)
    \/ PageGet0Settle(c) \/ PageJoin0Settle(c)
    \/ PageGetSettle(c) \/ PageJoinSettle(c) \/ PageSleepDone(c)
    \/ PageHangupPress(c) \/ PageLeaveSettle(c) \/ PageHangupFinally(c)
    \/ PageGoBack(c) \/ PageUnmount(c) \/ PageEffectRerun(c)
    \/ SvcCallVisible(c) \/ SvcRemoteLeft(c)

\* ------------------------------------------- call page: app-state handler
AppStates == {"active", "inactive", "background"}

\* the app in the foreground, no handler in flight; offBy and restored record who
\* last turned the camera off and whether a resume has turned it on again
AppIdle ==
    [state |-> "active", hpc |-> "idle", call |-> 0, failed |-> FALSE,
     offBy |-> "none", restored |-> FALSE]

\* the effect registers the AppState listener for a video page with a call object
AppListening(pg) == pg.alive /\ pg.mode = "video" /\ pg.callObject

\* the camera request handleAppStateChange makes for nextAppState
AppHandlerDisableOnly(nextAppState) ==
    IF nextAppState \in {"inactive", "background"} THEN "disable" ELSE "idle"
AppHandlerRequest(nextAppState) ==
    IF nextAppState \in {"inactive", "background"} THEN "disable"
    ELSE IF nextAppState = "active" THEN "enable"
    ELSE "idle"

\* AppState emits 'change' with nextAppState; handleAppStateChange of the page of
\* call c runs up to its await (one handler in flight at a time)
AppStateChange(c, nextAppState) ==
    /\ nextAppState # app.state
    /\ app.hpc = "idle"
    /\ app' = IF AppListening(pages[c]) /\ pages[c].isCallReady
              THEN [app EXCEPT !.state = nextAppState,
                               !.hpc = AppHandlerRequest(nextAppState),
                               !.call = IF AppHandlerRequest(nextAppState) = "idle"
                                        THEN 0 ELSE c]
              ELSE [app EXCEPT !.state = nextAppState]
    /\ UNCHANGED <<badge, svcVars, navVars, pages, home, inviteVars>>

\* await callObject.camera.disable() / enable() of the handler settles; a rejection
\* is caught and logged
AppHandlerSettle ==
    /\ app.hpc \in {"disable", "enable"}
    /\ \/ /\ camera' = [camera EXCEPT ![app.call] =
                             IF app.hpc = "disable" THEN "off" ELSE "on"]
          /\ app' = [app EXCEPT
                        !.hpc = "idle", !.call = 0, !.failed = FALSE,
                        !.offBy = IF app.hpc = "enable" THEN "none"
                                  ELSE IF camera[app.call] = "on" THEN "page" ELSE @,
                        !.restored = @ \/ (/\ app.hpc = "enable"
                                           /\ camera[app.call] = "off"
                                           /\ app.offBy = "page")]
       \/ /\ app' = [app EXCEPT !.hpc = "idle", !.call = 0, !.failed = TRUE]
          /\ UNCHANGED camera
    /\ UNCHANGED <<badge, client, created, exists, cstate, mic, callMode, navVars, pages,
                   home, inviteVars>>

\* the camera of the joined video call is turned off, or on again, from outside the
\* page (the camera manager of the call object is shared with the media SDK)
CameraTurnedOff(c) ==
    /\ PageState(pages[c]) = "Active"
    /\ pages[c].mode = "video"
    /\ app.state = "active"
    /\ app.hpc = "idle"
    /\ camera[c] = "on"
    /\ camera' = [camera EXCEPT ![c] = "off"]
    /\ app' = [app EXCEPT !.offBy = "user"]
    /\ UNCHANGED <<badge, client, created, exists, cstate, mic, callMode, navVars, pages,
                   home, inviteVars>>

CameraTurnedOn(c) ==
    /\ PageState(pages[c]) = "Active"
    /\ pages[c].mode = "video"
    /\ app.state = "active"
    /\ app.hpc = "idle"
    /\ camera[c] = "off"
    /\ app.offBy = "user"
    /\ camera' = [camera EXCEPT ![c] = "on"]
    /\ app' = [app EXCEPT !.offBy = "none"]
    /\ UNCHANGED <<badge, client, created, exists, cstate, mic, callMode, navVars, pages,
                   home, inviteVars>>

MediaNext(c) ==
    \/ \E s \in AppStates : AppStateChange(c, s)
    \/ AppHandlerSettle
    \/ CameraTurnedOff(c) \/ CameraTurnedOn(c)

\* ------------------------------------------------------- CallDurationBadge
\* formatTime: the text of the badge as <<minutes, seconds>>, or with the hours first
formatTime(totalSeconds) ==
    LET hours == totalSeconds \div 3600
        minutes == (totalSeconds % 3600) \div 60
        seconds == totalSeconds % 60
    IN  IF hours > 0 THEN <<hours, minutes, seconds>> ELSE <<minutes, seconds>>

\* no badge rendered; started_at = 0 stands for a session without started_at, the
\* clock (Date.now(), in seconds) starts at 1; signalled records that the media
\* service has delivered the session start
BadgeOff ==
    [mounted |-> FALSE, started_at |-> 0, signalled |-> FALSE, now |-> 1,
     elapsed |-> <<0, 0>>, interval |-> FALSE]

\* useMemo: new Date(startedAt).getTime(), in ms, or null (0)
startedAtDateTimestamp(startedAt) == IF startedAt = 0 THEN 0 ELSE startedAt * 1000

\* updateElapsedTime with Date.now() = now * 1000
updateElapsedTime(b) ==
    LET ms == b.now * 1000 - startedAtDateTimestamp(b.started_at)
        initialElapsedSeconds == IF ms < 0 THEN 0 ELSE ms \div 1000
    IN  [b EXCEPT !.elapsed = formatTime(initialElapsedSeconds)]

\* the effect on [startedAtDateTimestamp]: reset to "00:00" without a timestamp,
\* else an update at once and the 1 s interval
BadgeEffectNoGuard(b) == [updateElapsedTime(b) EXCEPT !.interval = TRUE]
BadgeEffect(b) ==
    IF startedAtDateTimestamp(b.started_at) = 0
    THEN [b EXCEPT !.elapsed = <<0, 0>>, !.interval = FALSE]
    ELSE [updateElapsedTime(b) EXCEPT !.interval = TRUE]

\* the badge draws the timer: if (!startedAt) return null
BadgeShown(b) == b.mounted /\ b.started_at # 0

\* the call UI of page c renders the badge (the call is joined)
BadgeMount(c) ==
    /\ ~badge.mounted
    /\ PageState(pages[c]) = "Active"
    /\ cstate[c] = "joined"
    /\ badge' = BadgeEffect([badge EXCEPT !.mounted = TRUE, !.elapsed = <<0, 0>>])
    /\ UNCHANGED <<app, svcVars, navVars, pages, home, inviteVars>>

\* the badge leaves the screen: the effect cleanup clears the interval
BadgeUnmount(c) ==
    /\ badge.mounted
    /\ PageState(pages[c]) # "Active" \/ cstate[c] # "joined"
    /\ badge' = [badge EXCEPT !.mounted = FALSE, !.interval = FALSE]
    /\ UNCHANGED <<app, svcVars, navVars, pages, home, inviteVars>>

\* the media service delivers the session start of call c: session.started_at is
\* set, and a rendered badge runs its effect again
SvcSessionStarted(c) ==
    /\ pages[c].callObject
    /\ cstate[c] = "joined"
    /\ badge.started_at = 0
    /\ LET b == [badge EXCEPT !.started_at = badge.now, !.signalled = TRUE]
       IN  badge' = IF b.mounted THEN BadgeEffect(b) ELSE b
    /\ UNCHANGED <<app, svcVars, navVars, pages, home, inviteVars>>

\* the session ends: started_at is gone again
SvcSessionEnded ==
    /\ badge.started_at # 0
    /\ LET b == [badge EXCEPT !.started_at = 0]
       IN  badge' = IF b.mounted THEN BadgeEffect(b) ELSE b
    /\ UNCHANGED <<app, svcVars, navVars, pages, home, inviteVars>>

\* the 1 s interval of the effect fires
BadgeInterval ==
    /\ badge.mounted
    /\ badge.interval
    /\ badge' = updateElapsedTime(badge)
    /\ UNCHANGED <<app, svcVars, navVars, pages, home, inviteVars>>

\* a second passes
ClockTick ==
    /\ badge.now < MaxTime
    /\ badge' = [badge EXCEPT !.now = @ + 1]
    /\ UNCHANGED <<app, svcVars, navVars, pages, home, inviteVars>>

BadgeNext(c) ==
    \/ BadgeMount(c) \/ BadgeUnmount(c)
    \/ SvcSessionStarted(c) \/ SvcSessionEnded
    \/ BadgeInterval \/ ClockTick

\* ------------------------------------------------- idle states of the rest
HomeIdle ==
    [pc |-> "idle", isInitiatingCall |-> FALSE, callId |-> 0, mode |-> "video",
     count |-> 0, notified |-> {}, ignored |-> 0]
ListenerOff ==
    [mounted |-> FALSE, stopped |-> FALSE, seen |-> {},
     incoming |-> 0, currentCall |-> 0, lastChecked |-> 0,
     ppc |-> "idle", pcall |-> 0, apc |-> "idle", accN |-> 0, accCall |-> 0,
     accFailed |-> FALSE,
     rpc |-> "idle", rejN |-> 0, rejCall |-> 0]
RingingOff ==
    [mounted |-> FALSE, stopped |-> FALSE,
     incomingCall |-> 0, apc |-> "idle", accCall |-> 0,
     rpc |-> "idle", rejCall |-> 0]

InviteIdle ==
    /\ lis = ListenerOff
    /\ ring = RingingOff
    /\ pending = <<>>
    /\ notifCall = [n \in NotifIds |-> 0]
    /\ calls = <<>>
    /\ vibrating = FALSE
    /\ surfaced = [c \in CallIds |-> 0]

\* --------------------------------------------- the call page on its own
\* The consultation route for FirstCall has just been pushed and its page mounted,
\* either by the initiator (call object created, maybe not yet visible) or by an
\* invitee whose listener already joined the call.
InitPage ==
    /\ client \in BOOLEAN
    /\ callMode \in [CallIds -> Modes]
    /\ \A c \in CallIds \ {FirstCall} : callMode[c] = "video"
    /\ created = {FirstCall}
    /\ \E st \in {"idle", "joined"} :
          /\ cstate = [c \in CallIds |-> IF c = FirstCall THEN st ELSE "idle"]
          /\ exists \in (IF st = "joined" THEN {{FirstCall}} ELSE {{}, {FirstCall}})
          /\ camera = [c \in CallIds |-> IF c = FirstCall /\ st = "joined"
                                         THEN CameraFor(callMode[c]) ELSE "unset"]
          /\ mic = [c \in CallIds |-> IF c = FirstCall /\ st = "joined"
                                      THEN MicFor(callMode[c]) ELSE "unset"]
          /\ st = "joined" => client
          /\ pages = [c \in CallIds |->
                        IF c = FirstCall
                        THEN InitializeCallStart(callMode[c], client, st)
                        ELSE NoPage]
    /\ navStack = <<[id |-> FirstCall, mode |-> callMode[FirstCall]]>>
    /\ navEnded = 0
    /\ home = HomeIdle
    /\ app = AppIdle
    /\ badge = BadgeOff
    /\ InviteIdle

NextPage == PageNext(FirstCall)

SpecPage == InitPage /\ [][NextPage]_vars

\* the call page with app-state events and the camera driven from outside
NextMedia == NextPage \/ MediaNext(FirstCall)

SpecMedia == InitPage /\ [][NextMedia]_vars

\* the call page with its duration badge, the session of the call and the clock
NextBadge == NextPage \/ BadgeNext(FirstCall)

SpecBadge == InitPage /\ [][NextBadge]_vars

\* ---------------------------------------------------- HomeScreen.initiateCall
\* the catch and finally of initiateCall: alert, setIsInitiatingCall(null)
HomeFinally(h) == [h EXCEPT !.pc = "idle", !.isInitiatingCall = FALSE]

\* initiateCall up to its first await: guards, setIsInitiatingCall, a fresh
\* callId (Crypto.randomUUID), the call object, the camera request
\* the guard of initiateCall (and of its buttons): if (isInitiatingCall) return
InitiateGuardOff(h) == TRUE
InitiateGuard(h) == ~h.isInitiatingCall

HomeInitiate(m) ==
    /\ navStack = <<>>
    /\ client
    /\ InitiateGuard(home)
    /\ home.pc = "idle"
    /\ \A c \in CallIds : ~pages[c].alive
    /\ home.count < MaxInitiates
    /\ home.count < MaxCalls
    /\ LET c == home.count + 1 IN
          /\ home' = [home EXCEPT !.pc = "cam", !.isInitiatingCall = TRUE,
                                  !.callId = c, !.mode = m, !.count = c]
          /\ callMode' = [callMode EXCEPT ![c] = m]
    /\ UNCHANGED <<app, badge, client, created, exists, cstate, camera, mic, navVars, pages,
                   inviteVars>>

\* a call button is pressed while an initiateCall is still running: the guard
\* returns at once (the press is counted); a press that passed the guard would
\* start a second initiateCall with a fresh callId
HomeInitiateWhileBusy(m) ==
    /\ home.pc # "idle"
    /\ client
    /\ home.count < MaxCalls
    /\ home.ignored < MaxIgnored
    /\ IF InitiateGuard(home)
       THEN LET c == home.count + 1 IN
               /\ home' = [home EXCEPT !.pc = "cam", !.isInitiatingCall = TRUE,
                                       !.callId = c, !.mode = m, !.count = c]
               /\ callMode' = [callMode EXCEPT ![c] = m]
       ELSE /\ home' = [home EXCEPT !.ignored = @ + 1]
            /\ UNCHANGED callMode
    /\ UNCHANGED <<app, badge, client, created, exists, cstate, camera, mic, navVars, pages,
                   inviteVars>>

\* await call.camera.disable() / enable() of initiateCall settles
HomeCamSettle ==
    /\ home.pc = "cam"
    /\ \/ /\ camera' = [camera EXCEPT ![home.callId] = CameraFor(home.mode)]
          /\ home' = [home EXCEPT !.pc = "mic"]
       \/ /\ home' = HomeFinally(home)
          /\ UNCHANGED camera
    /\ UNCHANGED <<app, badge, client, created, exists, cstate, mic, callMode, navVars, pages,
                   inviteVars>>

\* await call.microphone.enable() settles; then getOrCreate is requested
HomeMicSettle ==
    /\ home.pc = "mic"
    /\ \/ /\ mic' = [mic EXCEPT ![home.callId] = MicFor(home.mode)]
          /\ home' = [home EXCEPT !.pc = "create"]
       \/ /\ home' = HomeFinally(home)
          /\ UNCHANGED mic
    /\ UNCHANGED <<app, badge, client, created, exists, cstate, camera, callMode, navVars, pages,
                   inviteVars>>

\* getOrCreate rejected: the outer catch alerts and the finally block runs; the
\* notify request and router.push are skipped
AfterCreateRejectedNotifies(h) == [h EXCEPT !.pc = "notify"]
AfterCreateRejected(h) == HomeFinally(h)

\* await call.getOrCreate(...) settles; created calls become visible to get()
\* at once or after a propagation delay; then the notification is requested
HomeCreateSettle ==
    /\ home.pc = "create"
    /\ \/ /\ created' = created \cup {home.callId}
          /\ exists' \in {exists, exists \cup {home.callId}}
          /\ home' = [home EXCEPT !.pc = "notify"]
       \/ /\ home' = AfterCreateRejected(home)
          /\ UNCHANGED <<app, badge, created, exists>>
    /\ UNCHANGED <<app, badge, client, cstate, camera, mic, callMode, navVars, pages, inviteVars>>

\* what follows the notify request: its own catch only logs, so router.push of
\* the consultation route runs whether or not the request succeeded
AfterNotifyRethrows(ok, stack, route) == IF ok THEN Append(stack, route) ELSE stack
AfterNotify(ok, stack, route) == Append(stack, route)

\* await fetch(notify-therapist) settles (a failure is caught and logged); then
\* router.push of the consultation route, and the finally block
HomeNotifySettle ==
    /\ home.pc = "notify"
    /\ \E ok \in BOOLEAN :
          /\ home' = [HomeFinally(home) EXCEPT
                         !.notified = IF ok THEN @ \cup {home.callId} ELSE @]
          /\ navStack' = AfterNotify(ok, navStack,
                                     [id |-> home.callId, mode |-> home.mode])
    /\ UNCHANGED <<app, badge, svcVars, navEnded, pages, inviteVars>>

HomeNext ==
    \/ \E m \in Modes : HomeInitiate(m) \/ HomeInitiateWhileBusy(m)
    \/ HomeCamSettle \/ HomeMicSettle \/ HomeCreateSettle \/ HomeNotifySettle

\* the pushed consultation route is rendered: the page mounts and its initialize
\* effect runs (the subscriber gets the current calling state at once)
PageMount(c) ==
    /\ pages[c].pc = "unmounted"
    /\ OnStack(c)
    /\ pages' = [pages EXCEPT ![c] = InitializeCallStart(RouteMode(c), client, cstate[c])]
    /\ HandleCallEnd(IF SubEnds(pages'[c], cstate[c]) THEN 1 ELSE 0)
    /\ UNCHANGED <<app, badge, svcVars, home, inviteVars>>

\* ------------------------------------- the initiator's device, end to end
Init ==
    /\ client = TRUE
    /\ created = {}
    /\ exists = {}
    /\ cstate = [c \in CallIds |-> "idle"]
    /\ camera = [c \in CallIds |-> "unset"]
    /\ mic = [c \in CallIds |-> "unset"]
    /\ callMode = [c \in CallIds |-> "video"]
    /\ navStack = <<>>
    /\ navEnded = 0
    /\ pages = [c \in CallIds |-> NoPage]
    /\ home = HomeIdle
    /\ app = AppIdle
    /\ badge = BadgeOff
    /\ InviteIdle

Next ==
    \/ HomeNext
    \/ \E c \in CallIds : PageMount(c) \/ PageNext(c)

Spec == Init /\ [][Next]_vars

\* ------------------------------------------- CallNotificationListener (polling)
\* the if/else of acceptCall that configures the camera from the notification's mode
ListenerCameraAlwaysOn(mode) == "on"
ListenerCamera(mode) == IF mode = "audio" THEN "off" ELSE "on"

\* the call a notification is for, and the mode it carries
NotifMode(n) == callMode[notifCall[n]]
Remove(s, x) == SelectSeq(s, LAMBDA y : y # x)
Bump(f, c) == [f EXCEPT ![c] = Cap(@ + 1, SurfCap)]

\* setInterval(pollForNotifications, 2000) fires: the fetch is requested
PollTick ==
    /\ lis.mounted
    /\ ~lis.stopped
    /\ lis.ppc = "idle"
    /\ lis' = [lis EXCEPT !.ppc = "fetch"]
    /\ UNCHANGED <<app, badge, svcVars, navVars, pages, home, ring, pending, notifCall, calls,
                   vibrating, surfaced>>

\* await fetch(pending-notifications) settles: an error or a non-ok response ends
\* the poll; otherwise notifications[0] is surfaced when its id is new
PollFetchSettle ==
    /\ lis.ppc = "fetch"
    /\ \/ /\ lis' = [lis EXCEPT !.ppc = "idle"]
          /\ UNCHANGED <<app, badge, vibrating, surfaced>>
       \/ /\ pending # <<>>
          /\ lis.lastChecked # pending[1]
          /\ LET n == pending[1] IN
                /\ lis' = [lis EXCEPT !.lastChecked = n, !.incoming = n,
                                      !.seen = @ \cup {n},
                                      !.ppc = IF client THEN "get" ELSE "idle",
                                      !.pcall = IF client THEN n ELSE 0]
                /\ surfaced' = Bump(surfaced, notifCall[n])
          /\ vibrating' = TRUE
       \/ /\ pending # <<>>
          /\ lis.lastChecked = pending[1]
          /\ lis' = [lis EXCEPT !.ppc = "idle"]
          /\ UNCHANGED <<app, badge, vibrating, surfaced>>
    /\ UNCHANGED <<app, badge, svcVars, navVars, pages, home, ring, pending, notifCall, calls>>

\* await call.get() of the poll settles: setCurrentCall(call), or the catch
PollGetSettle ==
    /\ lis.ppc = "get"
    /\ \/ /\ notifCall[lis.pcall] \in exists
          /\ lis' = [lis EXCEPT !.currentCall = notifCall[lis.pcall],
                                !.ppc = "idle", !.pcall = 0]
       \/ lis' = [lis EXCEPT !.ppc = "idle", !.pcall = 0]
    /\ UNCHANGED <<app, badge, svcVars, navVars, pages, home, ring, pending, notifCall, calls,
                   vibrating, surfaced>>

\* acceptCall up to its first await, with the incomingNotification and currentCall
\* of the render whose button was pressed; accFailed records that this accept took
\* one of its failure paths (no call object, or the catch)
ListenerAcceptStart(l) ==
    IF l.currentCall = 0 /\ client
    THEN [l EXCEPT !.apc = "get", !.accN = l.incoming,
                   !.accCall = notifCall[l.incoming], !.accFailed = FALSE]
    ELSE IF l.currentCall = 0
         THEN [l EXCEPT !.apc = "clear", !.accN = l.incoming, !.accFailed = TRUE]
         ELSE [l EXCEPT !.apc = "cam", !.accN = l.incoming,
                        !.accCall = l.currentCall, !.accFailed = FALSE]

ListenerAcceptPress ==
    /\ lis.incoming # 0
    /\ lis.apc = "idle"
    /\ Len(navStack) < MaxRoutes
    /\ lis' = ListenerAcceptStart(lis)
    /\ vibrating' = FALSE
    /\ UNCHANGED <<app, badge, svcVars, navVars, pages, home, ring, pending, notifCall, calls,
                   surfaced>>

\* await call.get() of acceptCall settles
ListenerAcceptGetSettle ==
    /\ lis.apc = "get"
    /\ \/ /\ lis.accCall \in exists
          /\ lis' = [lis EXCEPT !.apc = "cam"]
       \/ lis' = [lis EXCEPT !.apc = "clear", !.accFailed = TRUE]
    /\ UNCHANGED <<app, badge, svcVars, navVars, pages, home, ring, pending, notifCall, calls,
                   vibrating, surfaced>>

\* await call.camera.disable() / enable() of acceptCall settles
ListenerAcceptCamSettle ==
    /\ lis.apc = "cam"
    /\ \/ /\ camera' = [camera EXCEPT ![lis.accCall] = ListenerCamera(NotifMode(lis.accN))]
          /\ lis' = [lis EXCEPT !.apc = "mic"]
       \/ /\ lis' = [lis EXCEPT !.apc = "clear", !.accFailed = TRUE]
          /\ UNCHANGED camera
    /\ UNCHANGED <<app, badge, client, created, exists, cstate, mic, callMode, navVars, pages, home,
                   ring, pending, notifCall, calls, vibrating, surfaced>>

\* await call.microphone.enable() of acceptCall settles
ListenerAcceptMicSettle ==
    /\ lis.apc = "mic"
    /\ \/ /\ mic' = [mic EXCEPT ![lis.accCall] = "on"]
          /\ lis' = [lis EXCEPT !.apc = "join"]
       \/ /\ lis' = [lis EXCEPT !.apc = "clear", !.accFailed = TRUE]
          /\ UNCHANGED mic
    /\ UNCHANGED <<app, badge, client, created, exists, cstate, camera, callMode, navVars, pages,
                   home, ring, pending, notifCall, calls, vibrating, surfaced>>

\* await call.join() of acceptCall settles: router.push of the consultation route,
\* then clearNotification is requested; a rejection goes to the catch
ListenerAcceptJoinSettle ==
    /\ lis.apc = "join"
    /\ \/ /\ lis.accCall \in exists
          /\ cstate' = [cstate EXCEPT ![lis.accCall] = "joined"]
          /\ pages' = [pages EXCEPT ![lis.accCall] = SubCallback(@, "joined")]
          /\ navStack' = Append(navStack, [id |-> notifCall[lis.accN],
                                           mode |-> NotifMode(lis.accN)])
          /\ lis' = [lis EXCEPT !.apc = "clear"]
       \/ /\ lis' = [lis EXCEPT !.apc = "clear", !.accFailed = TRUE]
          /\ UNCHANGED <<app, badge, cstate, pages, navStack>>
    /\ UNCHANGED <<app, badge, client, created, exists, camera, mic, callMode, navEnded, home, ring,
                   pending, notifCall, calls, vibrating, surfaced>>

\* clearNotification after its DELETE settled (a failure is caught and logged)
ClearNotification(l) == [l EXCEPT !.incoming = 0, !.currentCall = 0]

\* the await clearNotification() that ends acceptCall settles
ListenerAcceptClearSettle ==
    /\ lis.apc = "clear"
    /\ pending' \in {pending, Remove(pending, lis.accN)}
    /\ lis' = [ClearNotification(lis) EXCEPT !.apc = "idle", !.accN = 0, !.accCall = 0,
                                             !.accFailed = FALSE]
    /\ vibrating' = FALSE
    /\ UNCHANGED <<app, badge, svcVars, navVars, pages, home, ring, notifCall, calls, surfaced>>

\* rejectCall up to its first await
ListenerRejectStart(l) ==
    IF l.currentCall # 0
    THEN [l EXCEPT !.rpc = "leave", !.rejN = l.incoming, !.rejCall = l.currentCall]
    ELSE [l EXCEPT !.rpc = "clear", !.rejN = l.incoming]

ListenerRejectPress ==
    /\ lis.incoming # 0
    /\ lis.rpc = "idle"
    /\ lis' = ListenerRejectStart(lis)
    /\ vibrating' = FALSE
    /\ UNCHANGED <<app, badge, svcVars, navVars, pages, home, ring, pending, notifCall, calls,
                   surfaced>>

\* await currentCall.leave() of rejectCall settles (a rejection is caught and logged)
ListenerRejectLeaveSettle ==
    /\ lis.rpc = "leave"
    /\ \/ /\ cstate' = [cstate EXCEPT ![lis.rejCall] = "left"]
          /\ HandleCallEnd(IF SubEnds(pages[lis.rejCall], "left") THEN 1 ELSE 0)
       \/ UNCHANGED <<app, badge, cstate, navVars>>
    /\ lis' = [lis EXCEPT !.rpc = "clear"]
    /\ UNCHANGED <<app, badge, client, created, exists, camera, mic, callMode, pages, home, ring,
                   pending, notifCall, calls, vibrating, surfaced>>

\* the await clearNotification() that ends rejectCall settles
ListenerRejectClearSettle ==
    /\ lis.rpc = "clear"
    /\ pending' \in {pending, Remove(pending, lis.rejN)}
    /\ lis' = [ClearNotification(lis) EXCEPT !.rpc = "idle", !.rejN = 0, !.rejCall = 0]
    /\ vibrating' = FALSE
    /\ UNCHANGED <<app, badge, svcVars, navVars, pages, home, ring, notifCall, calls, surfaced>>

\* Calls the environment may deliver: with both listeners mounted the model follows
\* one logical call, observed by the polling source and by the native-ringing source.
Deliverable(c) == (lis.mounted /\ ring.mounted) => c = FirstCall

\* the backend records a caller's notify-therapist request for call c: the
\* notification is listed first; the caller created the call object before
BackendNotify(c) ==
    LET issued == {n \in NotifIds : notifCall[n] # 0} IN
    /\ Cardinality(issued) < MaxNotifs
    /\ \A n \in NotifIds : notifCall[n] # c
    /\ cstate[c] \in {"idle", "ringing"}
    /\ lis.mounted
    /\ Deliverable(c)
    /\ LET n == Cardinality(issued) + 1 IN
          /\ notifCall' = [notifCall EXCEPT ![n] = c]
          /\ pending' = <<n>> \o pending
    /\ created' = created \cup {c}
    /\ exists' \in {exists, exists \cup {c}}
    /\ UNCHANGED <<app, badge, client, cstate, camera, mic, callMode, navVars, pages, home, lis,
                   ring, calls, vibrating, surfaced>>

\* notification n is in the backend's pending list
Listed(n) == \E i \in 1..Len(pending) : pending[i] = n

\* the caller cancels before an answer: the backend drops the notification from
\* the pending list
BackendExpire(n) ==
    /\ lis.mounted
    /\ Listed(n)
    /\ pending' = Remove(pending, n)
    /\ UNCHANGED <<app, badge, svcVars, navVars, pages, home, lis, ring, notifCall, calls,
                   vibrating, surfaced>>

\* cleanup of the polling effect (sign-out, a new client, unmount): clearInterval and
\* Vibration.cancel(); a poll already in flight is not affected
ListenerCleanup ==
    /\ lis.mounted
    /\ ~lis.stopped
    /\ lis' = [lis EXCEPT !.stopped = TRUE]
    /\ vibrating' = FALSE
    /\ UNCHANGED <<app, badge, svcVars, navVars, pages, home, ring, pending, notifCall, calls,
                   surfaced>>

ListenerNext ==
    \/ ListenerCleanup
    \/ PollTick \/ PollFetchSettle \/ PollGetSettle
    \/ ListenerAcceptPress \/ ListenerAcceptGetSettle \/ ListenerAcceptCamSettle
    \/ ListenerAcceptMicSettle \/ ListenerAcceptJoinSettle \/ ListenerAcceptClearSettle
    \/ ListenerRejectPress \/ ListenerRejectLeaveSettle \/ ListenerRejectClearSettle
    \/ \E c \in CallIds : BackendNotify(c)
    \/ \E n \in NotifIds : BackendExpire(n)

\* --------------------------------------------------- RingingCalls (native ringing)
\* the if/else of acceptCall that configures the camera from intended_call_mode
RingingCamera(mode) == IF mode = "audio" THEN "off" ELSE "on"

\* calls.find(...): the first call of client.state.calls that is ringing for this user
RECURSIVE FirstRinging(_, _)
FirstRinging(cs, st) ==
    IF cs = <<>> THEN 0
    ELSE IF st[Head(cs)] = "ringing" THEN Head(cs)
    ELSE FirstRinging(Tail(cs), st)

\* checkForIncomingCalls: the incomingCall it leaves, given the one its closure holds
CheckForIncomingCalls(inc, cs, st) ==
    LET ringingCall == FirstRinging(cs, st) IN
    IF ringingCall # 0 /\ (inc = 0 \/ inc # ringingCall) THEN ringingCall
    ELSE IF ringingCall = 0 /\ inc # 0 THEN 0
    ELSE inc

\* the effect is set up (a client is there) and its cleanup has not run
RingingSubscribed(r) == r.mounted /\ ~r.stopped

\* A calls$ emission, or a change of incomingCall?.id made by a handler, with cs and
\* st the call list and calling states after the step and r the state the handler
\* left: checkForIncomingCalls runs; when the id changes the effect re-runs
\* (its cleanup cancels the vibration, its immediate check finds nothing new).
RingingRefresh(r, cs, st) ==
    LET new == CheckForIncomingCalls(r.incomingCall, cs, st) IN
    /\ ring' = IF RingingSubscribed(r) THEN [r EXCEPT !.incomingCall = new] ELSE r
    /\ surfaced' = IF RingingSubscribed(r) /\ new # r.incomingCall /\ new # 0
                   THEN Bump(surfaced, new) ELSE surfaced
    /\ vibrating' = IF RingingSubscribed(r) /\ (new # r.incomingCall
                                                 \/ r.incomingCall # ring.incomingCall)
                    THEN FALSE ELSE vibrating

\* the media service delivers a ringing call for this user: it enters
\* client.state.calls and calls$ emits
NativeRing(c) ==
    /\ ring.mounted
    /\ Deliverable(c)
    /\ cstate[c] = "idle"
    /\ \A i \in DOMAIN calls : calls[i] # c
    /\ created' = created \cup {c}
    /\ exists' = exists \cup {c}
    /\ cstate' = [cstate EXCEPT ![c] = "ringing"]
    /\ calls' = Append(calls, c)
    /\ pages' = [pages EXCEPT ![c] = SubCallback(@, "ringing")]
    /\ RingingRefresh(ring, calls', cstate')
    /\ UNCHANGED <<app, badge, client, camera, mic, callMode, navVars, home, lis, pending, notifCall>>

\* the caller cancels or the ring times out: the call leaves client.state.calls
NativeRingEnd(c) ==
    /\ cstate[c] = "ringing"
    /\ cstate' = [cstate EXCEPT ![c] = "left"]
    /\ calls' = Remove(calls, c)
    /\ HandleCallEnd(IF SubEnds(pages[c], "left") THEN 1 ELSE 0)
    /\ RingingRefresh(ring, calls', cstate')
    /\ UNCHANGED <<app, badge, client, created, exists, camera, mic, callMode, pages, home, lis,
                   pending, notifCall>>

\* the incoming-call UI is rendered (IncomingCallUI returns null unless RINGING)
RingingShown == ring.incomingCall # 0 /\ cstate[ring.incomingCall] = "ringing"

\* acceptCall up to its first await
RingingAcceptPress ==
    /\ RingingShown
    /\ ring.apc = "idle"
    /\ Len(navStack) < MaxRoutes
    /\ ring' = [ring EXCEPT !.apc = "cam", !.accCall = ring.incomingCall]
    /\ vibrating' = FALSE
    /\ UNCHANGED <<app, badge, svcVars, navVars, pages, home, lis, pending, notifCall, calls,
                   surfaced>>

\* await incomingCall.camera.disable() / enable() settles (the catch only logs)
RingingAcceptCamSettle ==
    /\ ring.apc = "cam"
    /\ \/ /\ camera' = [camera EXCEPT ![ring.accCall] = RingingCamera(callMode[ring.accCall])]
          /\ ring' = [ring EXCEPT !.apc = "mic"]
       \/ /\ ring' = [ring EXCEPT !.apc = "idle", !.accCall = 0]
          /\ UNCHANGED camera
    /\ UNCHANGED <<app, badge, client, created, exists, cstate, mic, callMode, navVars, pages, home,
                   lis, pending, notifCall, calls, vibrating, surfaced>>

\* await incomingCall.microphone.enable() settles
RingingAcceptMicSettle ==
    /\ ring.apc = "mic"
    /\ \/ /\ mic' = [mic EXCEPT ![ring.accCall] = "on"]
          /\ ring' = [ring EXCEPT !.apc = "accept"]
       \/ /\ ring' = [ring EXCEPT !.apc = "idle", !.accCall = 0]
          /\ UNCHANGED mic
    /\ UNCHANGED <<app, badge, client, created, exists, cstate, camera, callMode, navVars, pages,
                   home, lis, pending, notifCall, calls, vibrating, surfaced>>

\* await incomingCall.accept() settles: router.push, setIncomingCall(null); the call
\* stays RINGING on this device until it is joined, or the service has moved it on
RingingAcceptSettle ==
    /\ ring.apc = "accept"
    /\ \/ /\ \E st \in {"ringing", "joining"} :
                cstate' = [cstate EXCEPT ![ring.accCall] =
                              IF @ = "ringing" THEN st ELSE @]
          /\ navStack' = Append(navStack, [id |-> ring.accCall,
                                           mode |-> callMode[ring.accCall]])
          /\ RingingRefresh([ring EXCEPT !.incomingCall = 0, !.apc = "idle",
                                          !.accCall = 0], calls, cstate')
       \/ /\ ring' = [ring EXCEPT !.apc = "idle", !.accCall = 0]
          /\ UNCHANGED <<app, badge, cstate, navStack, vibrating, surfaced>>
    /\ UNCHANGED <<app, badge, client, created, exists, camera, mic, callMode, navEnded, pages, home,
                   lis, pending, notifCall, calls>>

\* rejectCall up to its await
RingingRejectPress ==
    /\ RingingShown
    /\ ring.rpc = "idle"
    /\ ring' = [ring EXCEPT !.rpc = "reject", !.rejCall = ring.incomingCall]
    /\ vibrating' = FALSE
    /\ UNCHANGED <<app, badge, svcVars, navVars, pages, home, lis, pending, notifCall, calls,
                   surfaced>>

\* await incomingCall.reject() settles: setIncomingCall(null); the rejected call has
\* left client.state.calls, or is still listed as ringing; the catch only logs
RingingRejectSettle ==
    /\ ring.rpc = "reject"
    /\ \/ /\ \/ /\ cstate' = [cstate EXCEPT ![ring.rejCall] = "left"]
                /\ calls' = Remove(calls, ring.rejCall)
                /\ HandleCallEnd(IF SubEnds(pages[ring.rejCall], "left") THEN 1 ELSE 0)
             \/ UNCHANGED <<app, badge, cstate, calls, navVars>>
          /\ RingingRefresh([ring EXCEPT !.incomingCall = 0, !.rpc = "idle",
                                          !.rejCall = 0], calls', cstate')
       \/ /\ ring' = [ring EXCEPT !.rpc = "idle", !.rejCall = 0]
          /\ UNCHANGED <<app, badge, cstate, calls, navVars, vibrating, surfaced>>
    /\ UNCHANGED <<app, badge, client, created, exists, camera, mic, callMode, pages, home, lis,
                   pending, notifCall>>

\* cleanup of the RingingCalls effect when the client goes away or the component
\* unmounts: unsubscribe from calls$ and Vibration.cancel()
RingingCleanup ==
    /\ ring.mounted
    /\ ~ring.stopped
    /\ ring' = [ring EXCEPT !.stopped = TRUE]
    /\ vibrating' = FALSE
    /\ UNCHANGED <<app, badge, svcVars, navVars, pages, home, lis, pending, notifCall, calls,
                   surfaced>>

RingingNext ==
    \/ RingingCleanup
    \/ \E c \in CallIds : NativeRing(c) \/ NativeRingEnd(c)
    \/ RingingAcceptPress \/ RingingAcceptCamSettle \/ RingingAcceptMicSettle
    \/ RingingAcceptSettle
    \/ RingingRejectPress \/ RingingRejectSettle

\* ------------------------------------------- the invitee's device, both listeners
\* The device of a signed-in user with a connected client.  The polling effect runs
\* for a therapist only (its initial check is then in flight); RingingCalls is
\* subscribed where a layout mounts it.  At least one of the two is mounted.
InitInvite ==
    /\ client = TRUE
    /\ created = {}
    /\ exists = {}
    /\ cstate = [c \in CallIds |-> "idle"]
    /\ camera = [c \in CallIds |-> "unset"]
    /\ mic = [c \in CallIds |-> "unset"]
    /\ callMode \in [CallIds -> Modes]
    /\ \A c \in CallIds \ {FirstCall} : callMode[c] = "video"
    /\ navStack = <<>>
    /\ navEnded = 0
    /\ pages = [c \in CallIds |-> NoPage]
    /\ home = HomeIdle
    /\ app = AppIdle
    /\ badge = BadgeOff
    /\ lis \in {ListenerOff, [ListenerOff EXCEPT !.mounted = TRUE, !.ppc = "fetch"]}
    /\ ring \in {RingingOff, [RingingOff EXCEPT !.mounted = TRUE]}
    /\ lis.mounted \/ ring.mounted
    /\ pending = <<>>
    /\ notifCall = [n \in NotifIds |-> 0]
    /\ calls = <<>>
    /\ vibrating = FALSE
    /\ surfaced = [c \in CallIds |-> 0]

NextInvite == ListenerNext \/ RingingNext

SpecInvite == InitInvite /\ [][NextInvite]_vars

\* the same device with the interval timer firing (every 2 s) and every request
\* of the poll and of the listener's handlers settling
SpecInviteFair ==
    /\ SpecInvite
    /\ WF_vars(PollTick) /\ WF_vars(PollFetchSettle) /\ WF_vars(PollGetSettle)
    /\ WF_vars(ListenerAcceptGetSettle) /\ WF_vars(ListenerAcceptCamSettle)
    /\ WF_vars(ListenerAcceptMicSettle) /\ WF_vars(ListenerAcceptJoinSettle)
    /\ WF_vars(ListenerAcceptClearSettle)
    /\ WF_vars(ListenerRejectLeaveSettle) /\ WF_vars(ListenerRejectClearSettle)

\* ------------------------------------------------- every device scenario
\* The three scenarios side by side: a call page just mounted, the initiator's
\* device from its home screen (both without listeners), and the invitee's device
\* with its listeners, whose accepted call is handed to the call page by router.push.
ListenersOff == ~lis.mounted /\ ~ring.mounted

InitAny == InitPage \/ Init \/ InitInvite

NextAny ==
    \/ ListenersOff /\ Next
    \/ NextInvite

SpecAny == InitAny /\ [][NextAny]_vars

\* the steps the device takes by itself: settlements of its own requests and presses
\* of controls it renders; not teardown, effect re-runs, timers of the poll, or
\* events that arrive from the backend, the callers or the media service
OwnStep ==
    \/ HomeCamSettle \/ HomeMicSettle \/ HomeCreateSettle \/ HomeNotifySettle
    \/ \E c \in CallIds :
          \/ PageCamSettle(c) \/ PageMicSettle(c) \/ PageGet0Settle(c)
          \/ PageJoin0Settle(c) \/ PageGetSettle(c) \/ PageJoinSettle(c)
          \/ PageSleepDone(c) \/ PageHangupPress(c) \/ PageLeaveSettle(c)
          \/ PageHangupFinally(c) \/ PageGoBack(c)
    \/ ListenerAcceptGetSettle \/ ListenerAcceptCamSettle \/ ListenerAcceptMicSettle
    \/ ListenerAcceptJoinSettle \/ ListenerAcceptClearSettle
    \/ ListenerRejectPress \/ ListenerRejectLeaveSettle \/ ListenerRejectClearSettle
    \/ RingingAcceptCamSettle \/ RingingAcceptMicSettle \/ RingingAcceptSettle
    \/ RingingRejectPress \/ RingingRejectSettle

\* ------------------------------------------------------------------ claims
InitSteps(c) ==
    \/ PageCamSettle(c) \/ PageMicSettle(c) \/ PageGet0Settle(c) \/ PageJoin0Settle(c)
    \/ PageGetSettle(c) \/ PageJoinSettle(c) \/ PageSleepDone(c)

\* C1: once a hangup issued on the rendered (Active) call UI has run to its end, the
\* call route is no longer on the navigation stack (the coordinator is Idle) and
\* handleCallEnd has run, whether leave() resolved or rejected.
C1_HangupEndsIdle ==
    \A c \in CallIds :
        pages[c].hpc = "done" => (~OnStack(c) /\ navEnded >= 1)

\* a hangup whose leave() rejected has completed and the call screen is gone
C1_Witness ==
    \E c \in CallIds :
        /\ pages[c].hpc = "done"
        /\ pages[c].leaveRejected
        /\ cstate[c] = "joined"
        /\ navStack = <<>>

\* C2: whenever the state stream reports Left for the call of an Active page (its
\* call UI is rendered), that very step runs handleCallEnd and removes the call
\* route; no local hangup is needed.
C2_RemoteLeftEndsCall ==
    [][\A c \in CallIds :
          (/\ PageState(pages[c]) = "Active"
           /\ TopId = c
           /\ cstate[c] = "joined"
           /\ cstate'[c] = "left")
          => (/\ (\A i \in DOMAIN navStack' : navStack'[i].id # c)
              /\ navEnded' = Cap(navEnded + 1, NavCap))]_vars

\* the remote party ended an Active call on which hangup was never pressed, and
\* the only navigation so far is the one of the Left subscriber
C2_Witness ==
    \E c \in CallIds :
        /\ pages[c].alive /\ pages[c].mounted /\ pages[c].subscribed
        /\ pages[c].hasJoined /\ pages[c].error = "none"
        /\ pages[c].hpc = "idle"
        /\ cstate[c] = "left"
        /\ navEnded = 1
        /\ navStack = <<>>

\* C3: the retry loop is bounded and its outcomes are as claimed, for a page that
\* stays mounted: (a) it never makes more than maxAttempts retries and is never
\* stuck before initializeCall settles; (b) when initializeCall returns normally
\* (a get() and the join() after it succeeded, after any number of failed probes
\* the loop allows) the page is Active; (c) it gives up with the not-found error
\* only when maxAttempts retries have failed, never earlier; (d) once maxAttempts
\* retries have failed, the next step of the loop makes the page Failed with that
\* error surfaced.
C3_LoopInv ==
    \A c \in CallIds :
        LET pg == pages[c] IN
        /\ pg.attempts <= maxAttempts
        /\ pg.pc \in {"cam", "mic", "get0", "join0", "get", "join", "sleep"}
              => ENABLED InitSteps(c)
        /\ (pg.pc = "done" /\ pg.mounted)
              => (PageState(pg) = "Active" /\ cstate[c] # "idle")
        /\ (pg.pc = "failed" /\ pg.mounted) => PageState(pg) = "Failed"

C3_LoopStep ==
    \A c \in CallIds :
        LET pg == pages[c] IN
        /\ (pg.pc # "failed" /\ pages'[c].pc = "failed" /\ pages'[c].error = NotFoundMsg)
              => (pg.pc = "sleep" /\ pg.attempts = maxAttempts)
        /\ (pg.pc = "sleep" /\ pg.attempts = maxAttempts /\ pg.mounted
                /\ pages'[c].pc # "sleep")
              => (pages'[c].pc = "failed" /\ pages'[c].error = NotFoundMsg
                    /\ PageState(pages'[c]) = "Failed")
        /\ (pg.pc = "sleep" /\ pg.attempts < maxAttempts /\ pg.mounted
                /\ pages'[c].pc # "sleep")
              => pages'[c].pc = "get"

C3_JoinRetry == []C3_LoopInv /\ [][C3_LoopStep]_vars

\* get() failed twice, then succeeded, join() succeeded: the page is Active
C3_Witness ==
    \E c \in CallIds :
        /\ pages[c].pc = "done" /\ pages[c].mounted
        /\ pages[c].getFails = 2
        /\ PageState(pages[c]) = "Active"
        /\ cstate[c] = "joined"

\* C10: a page torn down while still Joining (loading screen, join or retry loop
\* not completed) never leaves a joined session behind.
C10_TeardownLeavesNoGhost ==
    \A c \in CallIds :
        pages[c].tornAt = "Joining" => cstate[c] # "joined"

C5_ConsumedOnce ==
    /\ ~(lis.apc # "idle" /\ lis.rpc # "idle" /\ lis.accN = lis.rejN)
    /\ ~(ring.apc # "idle" /\ ring.rpc # "idle" /\ ring.accCall = ring.rejCall)

\* C6: at most one call is joined on the device at any time.
C6_AtMostOneJoined ==
    Cardinality({c \in CallIds : cstate[c] = "joined"}) <= 1

\* C7: whenever a call initiated from the home screen becomes joined, its camera is
\* on exactly when the mode chosen at initiate is video, and its microphone is on.
C7_InitiateMediaFlags ==
    [][\A c \in CallIds :
          (cstate[c] # "joined" /\ cstate'[c] = "joined")
          => (/\ camera'[c] = (IF callMode[c] = "video" THEN "on" ELSE "off")
              /\ mic'[c] = "on")]_vars

\* an audio call initiated from the home screen is joined with the camera off
C7_Witness ==
    \E c \in CallIds :
        /\ home.callId = c /\ home.mode = "audio" /\ home.pc = "idle"
        /\ pages[c].pc = "done" /\ PageState(pages[c]) = "Active"
        /\ cstate[c] = "joined"
        /\ camera[c] = "off" /\ mic[c] = "on"

\* C8: an accept of an audio invitation reaches its join() / accept() request only
\* with the camera of the call disabled and its microphone enabled, and the step
\* that joins the call (listener) or accepts it and opens the call screen
\* (RingingCalls) leaves the flags {camera off, microphone on}.
C8_BeforeJoin ==
    /\ (lis.apc = "join" /\ NotifMode(lis.accN) = "audio")
          => (camera[lis.accCall] = "off" /\ mic[lis.accCall] = "on")
    /\ (ring.apc = "accept" /\ callMode[ring.accCall] = "audio")
          => (camera[ring.accCall] = "off" /\ mic[ring.accCall] = "on")

C8_JoinStep ==
    /\ (lis.apc = "join" /\ NotifMode(lis.accN) = "audio"
            /\ cstate'[lis.accCall] = "joined" /\ Len(navStack') > Len(navStack))
          => (camera'[lis.accCall] = "off" /\ mic'[lis.accCall] = "on")
    /\ (ring.apc = "accept" /\ callMode[ring.accCall] = "audio"
            /\ Len(navStack') > Len(navStack))
          => (camera'[ring.accCall] = "off" /\ mic'[ring.accCall] = "on")

C8_AcceptAudioFlags == []C8_BeforeJoin /\ [][C8_JoinStep]_vars

\* the listener has joined an audio invitation's call and pushed its call screen
C8_Witness ==
    \E c \in CallIds :
        /\ lis.apc = "clear" /\ lis.accCall = c /\ NotifMode(lis.accN) = "audio"
        /\ cstate[c] = "joined"
        /\ navStack # <<>> /\ navStack[Len(navStack)].mode = "audio"
        /\ camera[c] = "off" /\ mic[c] = "on"

\* C9: distance to Idle.  HomeRank: initiateCall in flight (Creating, AwaitingRemote).
\* PageRank: the call screen of c is up (Joining, Active, Ending, Failed).
\* ListenerRank / RingingRank: an invitation is shown or an accept / reject is in
\* flight (InvitationReceived, Accepting).  Rank is 0 exactly when the device is
\* Idle or has just handed the call to a call screen that is not mounted yet.
C9_HomeRank == IF home.pc = "idle" THEN 0 ELSE 1

C9_PageRank(c) ==
    LET pg == pages[c] IN
    IF ~pg.alive \/ ~OnStack(c) THEN 0
    ELSE IF PageState(pg) = "Joining"
         THEN CASE pg.pc \in {"cam", "mic"} -> 2
                [] pg.pc \in {"get0", "join0"} -> 2 * maxAttempts + 2
                [] pg.pc \in {"get", "join"} -> 2 * (maxAttempts - pg.attempts) + 1
                [] pg.pc = "sleep" -> 2 * (maxAttempts - pg.attempts) + 2
                [] OTHER -> 1
    ELSE IF PageState(pg) \in {"Failed", "NotFound"} THEN 1
    ELSE CASE pg.hpc = "idle" -> 3
           [] pg.hpc = "leaving" -> 2
           [] OTHER -> 1

C9_ListenerRank ==
    (CASE lis.apc = "idle" -> 0 [] lis.apc = "clear" -> 1 [] OTHER -> 2)
    + (CASE lis.rpc = "idle" -> (IF lis.incoming # 0 THEN 3 ELSE 0)
         [] lis.rpc = "clear" -> 1
         [] OTHER -> 2)

C9_RingingRank ==
    LET R == IF RingingSubscribed(ring)
             THEN Cardinality({i \in DOMAIN calls : cstate[calls[i]] = "ringing"})
             ELSE IF RingingShown THEN 1 ELSE 0
        counted == IF RingingSubscribed(ring)
                   THEN cstate[ring.rejCall] = "ringing"
                   ELSE RingingShown /\ ring.incomingCall = ring.rejCall
    IN
    4 * R
    + (IF ring.apc = "idle" THEN 0 ELSE 1)
    + (IF ring.rpc = "idle" THEN 0
       ELSE IF counted THEN 0 - 1 ELSE 2)

RECURSIVE C9_PageRanks(_)
C9_PageRanks(S) ==
    IF S = {} THEN 0
    ELSE LET c == CHOOSE x \in S : TRUE
         IN  C9_PageRank(c) + C9_PageRanks(S \ {c})

C9_Rank == C9_HomeRank + C9_PageRanks(CallIds) + C9_ListenerRank + C9_RingingRank

\* C9: in every reachable state that is not Idle (a call is being created, joined,
\* active or ending, or an invitation is shown or being accepted or rejected),
\* whatever failed before, the device has a step of its own enabled that brings it
\* strictly closer to Idle; so Idle stays reachable from every such state by the
\* device's own steps alone.
C9_Busy ==
    \/ home.pc # "idle"
    \/ \E c \in CallIds : pages[c].alive /\ OnStack(c)
    \/ lis.incoming # 0 \/ lis.apc # "idle" \/ lis.rpc # "idle"
    \/ RingingShown \/ ring.apc # "idle" \/ ring.rpc # "idle"

C9_IdleReachable ==
    /\ C9_Busy => C9_Rank > 0
    /\ C9_Rank > 0 => ENABLED (OwnStep /\ C9_Rank' < C9_Rank)

\* every retry of the join loop has failed: the call screen shows the error, is
\* still up, and its Go Back control leads to Idle
C9_Witness ==
    \E c \in CallIds :
        /\ OnStack(c) /\ pages[c].alive
        /\ pages[c].error = NotFoundMsg
        /\ PageState(pages[c]) = "Failed"
        /\ C9_Rank = 1

\* C11: once the polling effect is cleaned up, no step shows a notification or sets
\* currentCall; once the RingingCalls effect is cleaned up, no step shows a ringing
\* call; and with every listener of the device cleaned up, no step surfaces an
\* invitation or starts the vibration.
C11_QuietAfterTeardown ==
    [][/\ lis.stopped => (/\ lis'.incoming \in {lis.incoming, 0}
                          /\ lis'.currentCall \in {lis.currentCall, 0}
                          /\ lis'.lastChecked = lis.lastChecked)
       /\ ring.stopped => ring'.incomingCall \in {ring.incomingCall, 0}
       /\ ((lis.stopped \/ ~lis.mounted) /\ (ring.stopped \/ ~ring.mounted))
             => (surfaced' = surfaced /\ (vibrating' => vibrating))]_vars


\* C12: the step that completes rejectCall leaves the call object left (declined) and
\* the notification record deleted, and the step that completes acceptCall leaves the
\* notification record deleted.
C12_ConsumeClearsBothSources ==
    [][/\ (lis.rpc = "clear" /\ lis'.rpc = "idle")
            => (cstate'[notifCall[lis.rejN]] = "left" /\ ~Listed(lis.rejN)')
       /\ (lis.apc = "clear" /\ lis'.apc = "idle") => ~Listed(lis.accN)']_vars

\* C13: when the resume handler's enable() turns the camera of a call from off to
\* on, the camera had been turned off by the page's own background handler, not
\* by the user.
C13_ResumeKeepsUserChoice ==
    [][\A c \in CallIds :
          (/\ app.hpc = "enable" /\ app'.hpc = "idle"
           /\ camera[c] = "off" /\ camera'[c] = "on")
          => app.offBy = "page"]_vars

ActiveVideo(c) ==
    /\ PageState(pages[c]) = "Active"
    /\ pages[c].isCallReady
    /\ pages[c].mode = "video"

\* C14: in an Active video call a background event starts camera.disable() and the
\* following foreground event starts camera.enable(), and once the request has
\* resolved the camera is off, respectively on; for an audio page no app-state
\* event starts a request or changes the camera.
C14_BackgroundForeground ==
    [][\A c \in CallIds :
          /\ (ActiveVideo(c) /\ app.state = "active" /\ app'.state # "active")
                => (app'.hpc = "disable" /\ app'.call = c)
          /\ (ActiveVideo(c) /\ app.state # "active" /\ app'.state = "active")
                => (app'.hpc = "enable" /\ app'.call = c)
          /\ (app.call = c /\ app.hpc = "disable" /\ app'.hpc = "idle" /\ ~app'.failed)
                => camera'[c] = "off"
          /\ (app.call = c /\ app.hpc = "enable" /\ app'.hpc = "idle" /\ ~app'.failed)
                => camera'[c] = "on"
          /\ (pages[c].alive /\ pages[c].mode = "audio" /\ app'.state # app.state)
                => (app'.hpc = "idle" /\ camera'[c] = camera[c])
          /\ (app.hpc # "idle" /\ app.call = c) => pages[c].mode = "video"]_vars

\* the camera of a video call was disabled on background and enabled again on the
\* following foreground
C14_Witness ==
    /\ app.restored
    /\ app.state = "active"
    /\ app.hpc = "idle"
    /\ camera[FirstCall] = "on"
    /\ ActiveVideo(FirstCall)

\* C15: for no call are the hangup's leave() and a get() or join() of the retry
\* loop outstanding at the same time.
C15_TransitionsSerialized ==
    \A c \in CallIds :
        ~(pages[c].hpc = "leaving" /\ pages[c].pc \in {"get", "join"})

\* C16: the step in which a join() issued after a successful get() rejects ends
\* initializeCall in its catch, with the error shown (Failed) while the page is
\* mounted; it does not go on to another attempt of the retry loop.
C16_JoinFailureNotRetried ==
    [][\A c \in CallIds :
          (pages[c].pc \in {"join0", "join"} /\ pages'[c].pc \notin {"join0", "join", "done"})
          => (/\ pages'[c].pc = "failed"
              /\ pages'[c].mounted => PageState(pages'[c]) = "Failed")]_vars

\* C17: the step that ends a rejectCall, of either listener, leaves the rejected
\* invitation no longer shown and the vibration off, whether its requests resolved
\* or rejected.
C17_RejectAlwaysClears ==
    [][/\ (lis.rpc = "clear" /\ lis'.rpc = "idle")
            => (lis'.incoming = 0 /\ ~vibrating')
       /\ (ring.rpc = "reject" /\ ring'.rpc = "idle")
            => (ring'.incomingCall # ring.rejCall /\ ~vibrating')]_vars

\* C18: a shown notification that is no longer in the pending list (the caller
\* cancelled) is eventually cleared with the vibration off, unless polling was
\* torn down.
C18_CancelEventuallyClears ==
    (lis.incoming # 0 /\ ~Listed(lis.incoming))
        ~> ((lis.incoming = 0 /\ ~vibrating) \/ lis.stopped)

\* C19: the step that settles the notify request, whether the request succeeded or
\* failed, pushes the call screen's route with the callId of the call object that
\* initiateCall created.
C19_NotifyFailureProceeds ==
    [][(home.pc = "notify" /\ home'.pc # "notify")
          => (/\ home.callId \in created
              /\ navStack' = Append(navStack, [id |-> home.callId, mode |-> home.mode]))]_vars

\* the initiator is on the call screen of a call whose notify request failed
C19_Witness ==
    /\ home.pc = "idle"
    /\ home.callId # 0
    /\ home.callId \notin home.notified
    /\ OnStack(home.callId)
    /\ pages[home.callId].alive

\* C20: in every state before the media service has delivered the session start,
\* Joining and Joined included, the session has no started_at and the duration
\* clock is unset: the badge holds "00:00", runs no interval and renders nothing.
C20_ClockUnsetBeforeSessionStart ==
    ~badge.signalled
        => (/\ badge.started_at = 0
            /\ badge.elapsed = <<0, 0>>
            /\ ~badge.interval
            /\ ~BadgeShown(badge))

\* the call is joined and its badge mounted, seconds have passed, and the session
\* start has not been delivered
C20_Witness ==
    /\ ~badge.signalled
    /\ badge.mounted
    /\ badge.now = MaxTime
    /\ cstate[FirstCall] = "joined"
    /\ PageState(pages[FirstCall]) = "Active"

\* C21: while a shown invitation is still pending (its notification is still
\* listed, its call still ringing), no step replaces it by the invitation of
\* another call: it can only stay or be cleared.
C21_PendingNotReplaced ==
    [][/\ (lis.incoming # 0 /\ Listed(lis.incoming)' /\ lis'.incoming # lis.incoming)
             => lis'.incoming = 0
       /\ (/\ ring.incomingCall # 0
           /\ cstate'[ring.incomingCall] = "ringing"
           /\ ring'.incomingCall # ring.incomingCall)
             => ring'.incomingCall = 0]_vars

\* C22: a poll response never surfaces a notification id that an earlier poll
\* response has surfaced already.
C22_SurfacedOncePerId ==
    [][\A n \in NotifIds :
          (lis.ppc = "fetch" /\ lis'.incoming = n /\ lis'.ppc # "fetch"
           /\ lis'.lastChecked # lis.lastChecked)
          => n \notin lis.seen]_vars

\* an invitation is shown by one of the listeners and no answer is under way
InvitationPending ==
    \/ lis.incoming # 0 /\ lis.apc = "idle" /\ lis.rpc = "idle"
    \/ RingingShown /\ ring.apc = "idle" /\ ring.rpc = "idle"

\* C23: the vibration is on in every state in which an invitation is pending, and
\* off in every state in which no invitation is shown.
C23_AlertMatchesPending ==
    /\ InvitationPending => vibrating
    /\ (lis.incoming = 0 /\ ~RingingShown) => ~vibrating

\* C24: the notify request is outstanding, a notification has been sent and the
\* call screen's route is on the stack only for a call whose object the media
\* service has created; and the step in which getOrCreate rejects sends nothing,
\* pushes no route and resets isInitiatingCall.
C24_CreatedFirst ==
    /\ home.pc = "notify" => home.callId \in created
    /\ home.notified \subseteq created
    /\ \A c \in CallIds : OnStack(c) => c \in created

C24_CreateFailureStep ==
    (home.pc = "create" /\ home'.pc # "create" /\ home.callId \notin created')
        => (/\ home'.pc = "idle"
            /\ ~home'.isInitiatingCall
            /\ home'.notified = home.notified
            /\ navStack' = navStack)

C24_NotifyAfterCreate == []C24_CreatedFirst /\ [][C24_CreateFailureStep]_vars

\* getOrCreate rejected after the media settings were applied: nothing was sent,
\* nothing pushed, the flag is reset
C24_Witness ==
    /\ home.callId # 0
    /\ mic[home.callId] = "on"
    /\ home.callId \notin created
    /\ home.pc = "idle"
    /\ ~home.isInitiatingCall
    /\ navStack = <<>>

\* C25: the cached currentCall, when set, is the call of the notification that is
\* shown, and the call object acceptCall configures and joins is the call of the
\* notification it accepts.
C25_CurrentCallMatches ==
    /\ lis.currentCall # 0
          => (lis.incoming # 0 /\ lis.currentCall = notifCall[lis.incoming])
    /\ lis.apc \in {"cam", "mic", "join"} => lis.accCall = notifCall[lis.accN]

\* C26: a get() of initializeCall that resolves is followed by join() only while
\* the page is mounted and no hangup has completed.
C26_NoJoinAfterTeardown ==
    [][\A c \in CallIds :
          (pages[c].pc \in {"get0", "get"} /\ pages'[c].pc \in {"join0", "join"})
          => (pages[c].mounted /\ pages[c].hpc # "done")]_vars

\* C27: when leave() resolved and handleCallEnd has already run for the ended call
\* (from the LEFT subscription), the finally block of handleHangup does not run
\* handleCallEnd a second time.
C27_EndNavigationOnce ==
    [][\A c \in CallIds :
          (/\ pages[c].hpc = "finally" /\ pages'[c].hpc = "done"
           /\ ~pages[c].leaveRejected
           /\ navEnded >= 1)
          => (navEnded' = navEnded /\ navStack' = navStack)]_vars

\* C28: a page that is on screen with a video client never holds the error
\* "Unable to initialize call": a re-run of the initialize effect initializes the
\* call again instead of stopping at the mounted flag.
C28_RerunReinitializes ==
    \A c \in CallIds :
        (pages[c].alive /\ client) => pages[c].error # "Unable to initialize call"

\* C29: while an initiateCall is running, no step starts another one: the callId
\* stays the same, and the only call object created and the only notification
\* sent are those of that callId.
C29_OneInitiationInFlight ==
    [][home.pc # "idle"
          => (/\ home'.count = home.count
              /\ home'.callId = home.callId
              /\ created' \subseteq created \cup {home.callId}
              /\ home'.notified \subseteq home.notified \cup {home.callId})]_vars

\* a second command was issued while the first was running and the first went on
\* to create its call
C29_Witness ==
    /\ home.ignored >= 1
    /\ home.pc = "notify"
    /\ created = {home.callId}
\* C30: when acceptCall fails (the call object cannot be fetched, there is no
\* client, or a request of the accept rejects), the clearNotification that ends it
\* leaves no invitation and no cached call, the backend no longer lists the
\* notification, the vibration is off, and the accept opened no screen.
C30_AcceptFailureCleansUp ==
    [][(lis.apc = "clear" /\ lis.accFailed /\ lis'.apc = "idle")
         => /\ lis'.incoming = 0
            /\ lis'.currentCall = 0
            /\ \A i \in 1..Len(pending') : pending'[i] # lis.accN
            /\ ~vibrating'
            /\ navStack' = navStack]_vars

====
